---- MODULE Spec2Model ----
(***************************************************************************)
(* Model of the resilient generation client of hacksprint-ps5-backend:     *)
(* the chat path (chatController.js: chat, callGeminiAPI, getAccessToken)  *)
(* and the recommendation path (recommendation controller:                 *)
(* generateHealthRecommendations, generateWithVertexAI, getAccessToken,    *)
(* extractAiText).                                                         *)
(*                                                                         *)
(* Every action is one run-to-completion segment of a handler: the code    *)
(* between two awaits.  Requests interleave at their awaits only, as on    *)
(* the Node.js event loop.  The database calls (findByPk, findOne, update, *)
(* create) are taken to succeed.                                           *)
(***************************************************************************)
EXTENDS Naturals, Sequences, FiniteSets, TLC

\* Number of HTTP requests the server handles (they may interleave).
NumReq == 2

Req == 1..NumReq

(***************************************************************************)
(* JavaScript values, tagged by type.  JSON bodies are built from these.   *)
(***************************************************************************)
Undef == [t |-> "undefined"]
Null == [t |-> "null"]
Str(s) == [t |-> "string", s |-> s]
Arr(a) == [t |-> "array", a |-> a]
Obj(o) == [t |-> "object", o |-> o]

\* Array.isArray(v)
IsArray(v) == v.t = "array"

\* JavaScript truthiness, as used by `||` and `if (...)`.
Truthy(v) ==
  CASE v.t = "undefined" -> FALSE
    [] v.t = "null" -> FALSE
    [] v.t = "string" -> v.s # ""
    [] OTHER -> TRUE

\* v[k] for a property name k on a value that is neither null nor undefined.
\* A string or a number has no own property of the names used here.
Prop(v, k) ==
  CASE v.t = "object" -> IF k \in DOMAIN v.o THEN v.o[k] ELSE Undef
    [] OTHER -> Undef

\* v[0] on a value that is neither null nor undefined: the first element of
\* an array, the property "0" of an object, the first character of a string
\* (a one-character string; which character is immaterial here, since a
\* string has none of the properties the extraction reads).
Index0(v) ==
  CASE v.t = "array" -> IF Len(v.a) > 0 THEN v.a[1] ELSE Undef
    [] v.t = "object" -> IF "0" \in DOMAIN v.o THEN v.o["0"] ELSE Undef
    [] v.t = "string" -> IF v.s # "" THEN Str("c") ELSE Undef
    [] OTHER -> Undef

\* v?.k
OptProp(v, k) == IF v.t \in {"undefined", "null"} THEN Undef ELSE Prop(v, k)

\* v?.[0]
OptIndex0(v) == IF v.t \in {"undefined", "null"} THEN Undef ELSE Index0(v)

\* v || null
OrNull(v) == IF Truthy(v) THEN v ELSE Null

(***************************************************************************)
(* Response Extractor                                                      *)
(***************************************************************************)
\* extractAiText(response): the guarded walk of the recommendation path.
\* Property access on these values cannot throw, so the catch branch (which
\* also returns null) is never taken.
extractAiText(response) ==
  LET candidates == OptProp(response, "candidates")
  IN IF IsArray(candidates) /\ Len(candidates.a) > 0
       THEN LET parts == OptProp(OptProp(candidates.a[1], "content"), "parts")
            IN IF IsArray(parts) /\ Len(parts.a) > 0
                 THEN OrNull(OptProp(parts.a[1], "text"))
                 ELSE Null
       ELSE Null

\* The inline extraction of callGeminiAPI:
\* response.data?.candidates?.[0]?.content?.parts?.[0]?.text || null
inlineAiText(data) ==
  OrNull(OptProp(OptIndex0(OptProp(OptProp(OptIndex0(
    OptProp(data, "candidates")), "content"), "parts")), "text"))

(***************************************************************************)
(* Configuration                                                           *)
(***************************************************************************)
\* modelNames of callGeminiAPI
ChatModelNames == <<"gemini-2.0-flash-exp", "gemini-1.5-flash", "gemini-1.5-pro">>

\* modelNames of generateWithVertexAI
VertexModelNames ==
  <<"gemini-2.5-pro", "gemini-2.5-flash", "gemini-1.5-flash", "gemini-1.5-pro">>

modelNames(k) == IF k = "chat" THEN ChatModelNames ELSE VertexModelNames

\* The loop as it would be if it retried its first candidate.
CandidateAtRetriesFirst(names, n) == names[1]

\* The candidate of the n-th iteration of `for (const modelName of modelNames)`.
CandidateAt(names, n) == names[n]

\* Whether the for loop has another candidate after `attempted` iterations.
HasNextCandidate(names, attempted) == attempted < Len(names)

(***************************************************************************)
(* The upstream, as seen through axios.post                                *)
(***************************************************************************)
\* How axios.post settles: it rejects (a non-2xx status, a transport error)
\* or resolves with the 2xx body as response.data.
Rejected(why) == [ok |-> FALSE, err |-> why, data |-> Undef]
Answered(data) == [ok |-> TRUE, err |-> "none", data |-> data]

\* The call is in flight.
Pending == [ok |-> FALSE, err |-> "pending", data |-> Undef]

Rejects(o) == ~o.ok

\* The text the upstream generates: it names the model that produced it.
TextOf(modelName) == "reply of " \o modelName

\* response.data of a 2xx answer that carries text.
TextBody(text) ==
  Obj([candidates |-> Arr(<<Obj([content |->
    Obj([role |-> Str("model"), parts |-> Arr(<<Obj([text |-> Str(text)])>>)])])>>)])

\* response.data of a 2xx answer with candidates: [].
EmptyBody == Obj([candidates |-> Arr(<<>>)])

\* What one outbound call to modelName can end in: a non-2xx status, a
\* transport error, a 2xx with text, a 2xx with candidates: [].
AllModelNames ==
  {ChatModelNames[i] : i \in DOMAIN ChatModelNames}
  \cup {VertexModelNames[i] : i \in DOMAIN VertexModelNames}

UpstreamOutcomes ==
  [modelName \in AllModelNames |->
     {Rejected("http"), Rejected("timeout"),
      Answered(TextBody(TextOf(modelName))), Answered(EmptyBody)}]

\* The error axios rejects with.  err.config.url names the model called;
\* err.response is set for a non-2xx status only.
AxiosError(modelName, o) ==
  [name |-> "AxiosError",
   message |-> IF o.err = "http" THEN <<"Request failed with status code 429">>
               ELSE <<"timeout of 1200000ms exceeded">>,
   status |-> IF o.err = "http" THEN "429" ELSE "none",
   model |-> modelName]

\* A message is the sequence of the strings it was concatenated from, so
\* that `a + b` is a \o b and a message can be told by what it starts with.
\* new Error(message)
Error(message) ==
  [name |-> "Error", message |-> message, status |-> "none", model |-> "none"]

\* lastError = null
NullError == [name |-> "null", message |-> <<>>, status |-> "none", model |-> "none"]

(***************************************************************************)
(* Credential Provider                                                     *)
(***************************************************************************)
\* Why getAccessToken's try block can throw: `auth` is undefined (the
\* constructor threw at module load), auth.getClient() rejects,
\* client.getAccessToken() rejects.
AuthCause(step) ==
  CASE step = "auth" -> "Cannot read properties of undefined (reading 'getClient')"
    [] step = "getClient" -> "Could not load the default credentials"
    [] step = "getAccessToken" -> "invalid_grant"

\* The error getAccessToken throws from its catch block.
getAccessTokenError(step) == Error(<<"Authentication failed: ">> \o <<AuthCause(step)>>)

\* The error the invocation ends with when getAccessToken threw:
\* callGeminiAPI lets it through, generateWithVertexAI wraps it again.
InvocationAuthError(k, step) ==
  IF k = "chat" THEN getAccessTokenError(step)
  ELSE Error(<<"Failed to authenticate with Google Cloud: ">>
             \o getAccessTokenError(step).message)

\* tokenResponse.token of the fetch that request r performs: the token
\* is identified by the fetch that obtained it.
NoToken == [by |-> 0, n |-> 0]

\* The provider as it would be with one module-level token handed to
\* every invocation.
IssuedTokenShared(r, n) == [by |-> 1, n |-> 1]

IssuedToken(r, n) == [by |-> r, n |-> n]

(***************************************************************************)
(* Requests, persistence and handler responses                             *)
(***************************************************************************)
\* One turn of a conversation: {role, parts: [{text}]}
Turn(role, text) ==
  Obj([role |-> Str(role), parts |-> Arr(<<Obj([text |-> text])>>)])

\* The assembler as it would be if it dropped the supplied history.
AssembleHistoryDropsHistory(conversationHistory, message) ==
  Arr(<<Turn("user", message)>>)

\* Conversation Assembler of chat:
\*   let geminiHistory = [];
\*   if (conversationHistory && Array.isArray(conversationHistory))
\*     geminiHistory = conversationHistory;
\*   geminiHistory.push({role: "user", parts: [{text: message}]});
AssembleHistory(conversationHistory, message) ==
  LET geminiHistory ==
        IF Truthy(conversationHistory) /\ IsArray(conversationHistory)
          THEN conversationHistory.a
          ELSE <<>>
  IN Arr(Append(geminiHistory, Turn("user", message)))

\* requestBody.contents of generateWithVertexAI
PromptContents(prompt) == Arr(<<Turn("user", Str(prompt))>>)

\* conversationHistory values a client sends: none, not an array, an empty
\* array, two earlier turns.
Histories ==
  {Undef, Str("not an array"), Arr(<<>>),
   Arr(<<Turn("user", Str("Hello")), Turn("model", Str("Hi! How can I help?"))>>)}

NewMessage == Str("What are the symptoms of flu?")

\* req.body of POST /api/chat
ChatBodies ==
  {[sessionId |-> Str("s1"), message |-> NewMessage, conversationHistory |-> h] :
     h \in Histories}
  \cup {[sessionId |-> Str("s1"), message |-> Undef, conversationHistory |-> Undef],
        [sessionId |-> Undef, message |-> NewMessage, conversationHistory |-> Undef]}

\* req.body of the recommendation request
RecBodies == {[analyticsId |-> a] : a \in {Undef, Str("a404"), Str("a2"), Str("a1")}}

\* The Analytics table: a1 carries a diagnosis, a2 does not.
AnalyticsTable ==
  [a1 |-> [id |-> "a1", patientId |-> "p1", reportId |-> "r1", prediction |-> "flu"],
   a2 |-> [id |-> "a2", patientId |-> "p1", reportId |-> "r2", prediction |-> ""]]

\* Analytics.findByPk(analyticsId)
findByPk(analyticsId) ==
  IF analyticsId.s \in DOMAIN AnalyticsTable THEN AnalyticsTable[analyticsId.s]
  ELSE [id |-> "", patientId |-> "", reportId |-> "", prediction |-> ""]

\* healthRecommendationPrompt
HealthPrompt(prediction) ==
  "You are a professional healthcare advisor AI. **Diagnosis:** " \o prediction

\* res.status(status).json({success, message, error | data | response})
Res(status, success, message, error, payload) ==
  [status |-> status, success |-> success, message |-> message,
   error |-> error, payload |-> payload]

NoRes == Res("none", FALSE, "", <<>>, Undef)

NoResult == [t |-> "none", value |-> Undef, error |-> NullError]
Returned(v) == [t |-> "return", value |-> v, error |-> NullError]
Thrown(e) == [t |-> "throw", value |-> Undef, error |-> e]

\* chat's inner catch
ChatFailureRes(err) ==
  Res("500", FALSE, "Failed to get AI response. Please try again.", err.message, Undef)

\* generateHealthRecommendations' catch around generateWithVertexAI
RecFailureRes(err) ==
  Res("500", FALSE, "Failed to generate recommendations with AI.", err.message, Undef)

FailureRes(k, err) == IF k = "chat" THEN ChatFailureRes(err) ELSE RecFailureRes(err)

\* generateHealthRecommendations' `if (!recommendations)` branch
NoContentRes(aiResp) ==
  Res("500", FALSE, "No recommendations content in AI response", <<>>, aiResp)

\* `throw lastError || new Error(...)` after the loop
ExhaustedError(k, last) ==
  IF last # NullError THEN last
  ELSE IF k = "chat" THEN Error(<<"All Gemini models failed">>)
  ELSE Error(<<"All Vertex AI models failed">>)

VARIABLES
  chatAuth,     \* `auth` of chatController.js: "ok", or "undefined"
  recAuth,      \* `auth` of the recommendation controller
  kind,         \* kind[r]: which handler serves request r ("none" before)
  pc,           \* pc[r]: the await request r is suspended at
  reqBody,      \* req.body
  contents,     \* requestBody.contents of the invocation
  accessToken,  \* the invocation's accessToken local
  fetches,      \* calls of getAccessToken() the invocation made
  tokenState,   \* how that call stands: "none", "pending", "ok", "failed"
  lastError,    \* the invocation's lastError local
  calls,        \* outbound axios.post calls of the invocation, in order
  result,       \* how the invocation ended: returned value or thrown error
  aiText,       \* the text extracted (aiText / recommendations)
  res,          \* the HTTP response the handler sent
  rowRef,       \* the Recommendation row findOne returned (0: none)
  store         \* the Recommendation table

vars ==
  <<chatAuth, recAuth, kind, pc, reqBody, contents, accessToken, fetches,
    tokenState, lastError, calls, result, aiText, res, rowRef, store>>

Init ==
  /\ chatAuth \in {"ok", "undefined"}
  /\ recAuth \in {"ok", "undefined"}
  /\ kind = [r \in Req |-> "none"]
  /\ pc = [r \in Req |-> "idle"]
  /\ reqBody = [r \in Req |-> Undef]
  /\ contents = [r \in Req |-> Undef]
  /\ accessToken = [r \in Req |-> NoToken]
  /\ fetches = [r \in Req |-> 0]
  /\ tokenState = [r \in Req |-> "none"]
  /\ lastError = [r \in Req |-> NullError]
  /\ calls = [r \in Req |-> <<>>]
  /\ result = [r \in Req |-> NoResult]
  /\ aiText = [r \in Req |-> Undef]
  /\ res = [r \in Req |-> NoRes]
  /\ rowRef = [r \in Req |-> 0]
  /\ store = <<>>

(***************************************************************************)
(* Generation Invoker: the body of the candidate loop                      *)
(***************************************************************************)
\* Authorization: `Bearer ${accessToken}`
Bearer(token) == token

\* axios.post(endpoint, requestBody, {headers, timeout}) for the n-th
\* candidate; the call is in flight until its outcome is known.
PostCall(k, n, token, body) ==
  [model |-> CandidateAt(modelNames(k), n), bearer |-> Bearer(token),
   contents |-> body, outcome |-> Pending]

\* One iteration of callGeminiAPI's loop, from the answer of the n-th call
\* to the next await: a rejection is caught and recorded in lastError; a
\* 2xx with text returns it; a 2xx without text falls out of the try block
\* with lastError untouched.  After the last candidate the function throws.
callGeminiAPIStep(n, last, o) ==
  LET modelName == CandidateAt(ChatModelNames, n)
      text == inlineAiText(o.data)
      newLast == IF Rejects(o) THEN AxiosError(modelName, o) ELSE last
  IN IF ~Rejects(o) /\ Truthy(text)
       THEN [next |-> "return", lastError |-> last, value |-> text]
     ELSE IF HasNextCandidate(ChatModelNames, n)
       THEN [next |-> "continue", lastError |-> newLast, value |-> Undef]
     ELSE [next |-> "throw", lastError |-> newLast, value |-> Undef]

\* generateWithVertexAI as it would be if a 2xx answer did not end the loop
\* while candidates remain.
generateWithVertexAIStepKeepsGoing(n, last, o) ==
  LET modelName == CandidateAt(VertexModelNames, n)
      newLast == IF Rejects(o) THEN AxiosError(modelName, o) ELSE last
  IN IF HasNextCandidate(VertexModelNames, n)
       THEN [next |-> "continue", lastError |-> newLast, value |-> Undef]
     ELSE IF ~Rejects(o)
       THEN [next |-> "return", lastError |-> last, value |-> o.data]
     ELSE [next |-> "throw", lastError |-> newLast, value |-> Undef]

\* One iteration of generateWithVertexAI's loop: a rejection is caught and
\* recorded in lastError; any 2xx returns response.data as it is.
generateWithVertexAIStep(n, last, o) ==
  LET modelName == CandidateAt(VertexModelNames, n)
      newLast == IF Rejects(o) THEN AxiosError(modelName, o) ELSE last
  IN IF ~Rejects(o)
       THEN [next |-> "return", lastError |-> last,
             value |-> o.data]
     ELSE IF HasNextCandidate(VertexModelNames, n)
       THEN [next |-> "continue", lastError |-> newLast, value |-> Undef]
     ELSE [next |-> "throw", lastError |-> newLast, value |-> Undef]

InvokerStep(k, n, last, o) ==
  IF k = "chat" THEN callGeminiAPIStep(n, last, o)
  ELSE generateWithVertexAIStep(n, last, o)

\* getAccessToken as it would be if its catch block logged the error and
\* returned undefined.
getAccessTokenSwallows(k, step) == Returned(NoToken)

\* How getAccessToken() ends when one of its awaits rejects: it throws.
getAccessTokenFails(k, step) == Thrown(InvocationAuthError(k, step))

(***************************************************************************)
(* Actions                                                                 *)
(***************************************************************************)
Respond(r, response) ==
  /\ res' = [res EXCEPT ![r] = response]
  /\ pc' = [pc EXCEPT ![r] = "done"]

\* The invocation ends by throwing e; both handlers catch it and answer 500.
InvocationThrows(r, k, e) ==
  /\ result' = [result EXCEPT ![r] = Thrown(e)]
  /\ Respond(r, FailureRes(k, e))

\* The code after `await getAccessToken()`: a throw ends the invocation
\* before the loop; otherwise the loop starts and posts to the first candidate.
\* `acquired` tells whether the credential provider produced a token.
AfterToken(r, k, acquired, out, body) ==
  /\ tokenState' = [tokenState EXCEPT ![r] = IF acquired THEN "ok" ELSE "failed"]
  /\ IF out.t = "throw"
    THEN /\ InvocationThrows(r, k, out.error)
         /\ UNCHANGED <<accessToken, calls>>
    ELSE /\ accessToken' = [accessToken EXCEPT ![r] = out.value]
         /\ calls' = [calls EXCEPT ![r] = <<PostCall(k, 1, out.value, body)>>]
         /\ pc' = [pc EXCEPT ![r] = "post"]
         /\ UNCHANGED <<result, res>>

\* chat: from the arrival of the request to `await auth.getClient()`.
chat_Receive(r, bodies) ==
  /\ pc[r] = "idle"
  /\ \E b \in bodies :
       /\ kind' = [kind EXCEPT ![r] = "chat"]
       /\ reqBody' = [reqBody EXCEPT ![r] = b]
       /\ IF ~Truthy(b.sessionId) \/ ~Truthy(b.message)
            THEN /\ Respond(r, Res("400", FALSE,
                         "Session ID and message are required", <<>>, Undef))
                 /\ UNCHANGED <<contents, fetches, tokenState, result,
                                accessToken, calls>>
            ELSE /\ contents' = [contents EXCEPT ![r] =
                                   AssembleHistory(b.conversationHistory, b.message)]
                 /\ fetches' = [fetches EXCEPT ![r] = @ + 1]
                 /\ IF chatAuth = "undefined"
                      THEN AfterToken(r, "chat", FALSE,
                             getAccessTokenFails("chat", "auth"),
                             AssembleHistory(b.conversationHistory, b.message))
                      ELSE /\ pc' = [pc EXCEPT ![r] = "getClient"]
                           /\ tokenState' = [tokenState EXCEPT ![r] = "pending"]
                           /\ UNCHANGED <<result, res, accessToken, calls>>
  /\ UNCHANGED <<chatAuth, recAuth, lastError, aiText, rowRef, store>>

\* generateHealthRecommendations: from the arrival of the request to
\* `await Analytics.findByPk(...)`.
rec_Receive(r, bodies) ==
  /\ pc[r] = "idle"
  /\ \E b \in bodies :
       /\ kind' = [kind EXCEPT ![r] = "rec"]
       /\ reqBody' = [reqBody EXCEPT ![r] = b]
       /\ IF recAuth = "undefined"
            THEN Respond(r, Res("500", FALSE,
                   "Server configuration error: Google Auth not initialized.",
                   <<>>, Undef))
          ELSE IF ~Truthy(b.analyticsId)
            THEN Respond(r, Res("400", FALSE,
                   "analyticsId is required in request body.", <<>>, Undef))
          ELSE /\ pc' = [pc EXCEPT ![r] = "findByPk"]
               /\ UNCHANGED res
  /\ UNCHANGED <<chatAuth, recAuth, contents, accessToken, fetches, tokenState,
                 lastError, calls, result, aiText, rowRef, store>>

\* generateHealthRecommendations: from the answer of findByPk to
\* `await auth.getClient()` inside generateWithVertexAI.
findByPk_Done(r) ==
  /\ pc[r] = "findByPk"
  /\ LET analytics == findByPk(reqBody[r].analyticsId)
     IN IF analytics.id = ""
          THEN /\ Respond(r, Res("404", FALSE,
                      "Analytics not found with the provided ID.", <<>>, Undef))
               /\ UNCHANGED <<contents, fetches, tokenState>>
        ELSE IF analytics.prediction = ""
          THEN /\ Respond(r, Res("400", FALSE,
                      "No diagnosis found in analytics. Please analyze the report first.",
                      <<>>, Undef))
               /\ UNCHANGED <<contents, fetches, tokenState>>
        ELSE /\ contents' = [contents EXCEPT ![r] =
                               PromptContents(HealthPrompt(analytics.prediction))]
             /\ fetches' = [fetches EXCEPT ![r] = @ + 1]
             /\ tokenState' = [tokenState EXCEPT ![r] = "pending"]
             /\ pc' = [pc EXCEPT ![r] = "getClient"]
             /\ UNCHANGED res
  /\ UNCHANGED <<chatAuth, recAuth, kind, reqBody, accessToken, lastError,
                 calls, result, aiText, rowRef, store>>

\* getAccessToken: auth.getClient() settles; on success the function goes
\* on to `await client.getAccessToken()`.
getClient_Done(r) ==
  /\ pc[r] = "getClient"
  /\ \E ok \in BOOLEAN :
       IF ok
         THEN /\ pc' = [pc EXCEPT ![r] = "getAccessToken"]
              /\ UNCHANGED <<tokenState, result, res, accessToken, calls>>
         ELSE AfterToken(r, kind[r], FALSE,
                         getAccessTokenFails(kind[r], "getClient"), contents[r])
  /\ UNCHANGED <<chatAuth, recAuth, kind, reqBody, contents, fetches, lastError,
                 aiText, rowRef, store>>

\* getAccessToken: client.getAccessToken() settles; on success the token is
\* returned to the invocation, which enters the loop and posts to the first
\* candidate.
getAccessToken_Done(r) ==
  /\ pc[r] = "getAccessToken"
  /\ \E ok \in BOOLEAN :
       AfterToken(r, kind[r], ok,
         IF ok THEN Returned(IssuedToken(r, fetches[r]))
         ELSE getAccessTokenFails(kind[r], "getAccessToken"),
         contents[r])
  /\ UNCHANGED <<chatAuth, recAuth, kind, reqBody, contents, fetches, lastError,
                 aiText, rowRef, store>>

\* The outbound call in flight settles with outcome o, and the invocation
\* runs to its next await: the next candidate's post, the handler's answer,
\* or (recommendation path, text extracted) `await Recommendation.findOne`.
post_Done(r, outcomes) ==
  /\ pc[r] = "post"
  /\ \E o \in outcomes[calls[r][Len(calls[r])].model] :
       LET k == kind[r]
           n == Len(calls[r])
           step == InvokerStep(k, n, lastError[r], o)
           settled == [calls[r] EXCEPT ![n].outcome = o]
       IN /\ lastError' = [lastError EXCEPT ![r] = step.lastError]
          /\ CASE step.next = "continue" ->
                    /\ calls' = [calls EXCEPT ![r] =
                                   Append(settled,
                                     PostCall(k, n + 1, accessToken[r], contents[r]))]
                    /\ UNCHANGED <<pc, result, aiText, res>>
               [] step.next = "throw" ->
                    /\ calls' = [calls EXCEPT ![r] = settled]
                    /\ InvocationThrows(r, k, ExhaustedError(k, step.lastError))
                    /\ UNCHANGED aiText
               [] step.next = "return" /\ k = "chat" ->
                    /\ calls' = [calls EXCEPT ![r] = settled]
                    /\ result' = [result EXCEPT ![r] = Returned(step.value)]
                    /\ aiText' = [aiText EXCEPT ![r] = step.value]
                    /\ Respond(r, Res("200", TRUE,
                         "Chat response generated successfully", <<>>,
                         [sessionId |-> reqBody[r].sessionId,
                          userMessage |-> reqBody[r].message,
                          botResponse |-> step.value]))
               [] step.next = "return" /\ k = "rec" ->
                    LET recommendations == extractAiText(step.value)
                    IN /\ calls' = [calls EXCEPT ![r] = settled]
                       /\ result' = [result EXCEPT ![r] = Returned(step.value)]
                       /\ aiText' = [aiText EXCEPT ![r] = recommendations]
                       /\ IF ~Truthy(recommendations)
                            THEN Respond(r, NoContentRes(step.value))
                            ELSE /\ pc' = [pc EXCEPT ![r] = "findOne"]
                                 /\ UNCHANGED res
  /\ UNCHANGED <<chatAuth, recAuth, kind, reqBody, contents, accessToken,
                 fetches, tokenState, rowRef, store>>

\* Recommendation.findOne({where: {analyticsId}}): 0 when there is no row.
findOne(rows, analyticsId) ==
  IF \E i \in 1..Len(rows) : rows[i].analyticsId = analyticsId
    THEN CHOOSE i \in 1..Len(rows) :
           /\ rows[i].analyticsId = analyticsId
           /\ \A j \in 1..(i - 1) : rows[j].analyticsId # analyticsId
    ELSE 0

\* recommendationData
RecommendationData(analytics, recommendations) ==
  [analyticsId |-> analytics.id, patientId |-> analytics.patientId,
   reportId |-> analytics.reportId, recommendations |-> recommendations,
   status |-> "generated"]

\* The Recommendation table as the read/write collaborator of the handler:
\* update() overwrites the row it was called on, create() adds a row.  The
\* table itself sets no limit on the rows of one analyticsId; the handler's
\* findOne is what decides between the two.
Recommendation_update(rows, i, data) == [rows EXCEPT ![i] = data]

Recommendation_create(rows, data) == Append(rows, data)

\* findOne answers; the handler starts update() on the row found, or create().
findOne_Done(r) ==
  /\ pc[r] = "findOne"
  /\ LET found == findOne(store, findByPk(reqBody[r].analyticsId).id)
     IN /\ rowRef' = [rowRef EXCEPT ![r] = found]
        /\ pc' = [pc EXCEPT ![r] = IF found # 0 THEN "update" ELSE "create"]
  /\ UNCHANGED <<chatAuth, recAuth, kind, reqBody, contents, accessToken,
                 fetches, tokenState, lastError, calls, result, aiText, res, store>>

RecSuccessRes(r, id) ==
  Res("200", TRUE, "Health recommendations generated and saved successfully", <<>>,
      [recommendationId |-> id,
       analyticsId |-> findByPk(reqBody[r].analyticsId).id,
       recommendations |-> aiText[r]])

\* recommendation.update(recommendationData) completes; the handler answers.
update_Done(r) ==
  /\ pc[r] = "update"
  /\ store' = Recommendation_update(store, rowRef[r],
                 RecommendationData(findByPk(reqBody[r].analyticsId), aiText[r]))
  /\ Respond(r, RecSuccessRes(r, rowRef[r]))
  /\ UNCHANGED <<chatAuth, recAuth, kind, reqBody, contents, accessToken,
                 fetches, tokenState, lastError, calls, result, aiText, rowRef>>

\* Recommendation.create(recommendationData) completes; the handler answers.
create_Done(r) ==
  /\ pc[r] = "create"
  /\ store' = Recommendation_create(store,
                 RecommendationData(findByPk(reqBody[r].analyticsId), aiText[r]))
  /\ rowRef' = [rowRef EXCEPT ![r] = Len(store) + 1]
  /\ Respond(r, RecSuccessRes(r, Len(store) + 1))
  /\ UNCHANGED <<chatAuth, recAuth, kind, reqBody, contents, accessToken,
                 fetches, tokenState, lastError, calls, result, aiText>>

\* The inputs of the interleaved runs: one well-formed and one rejected chat
\* request, a known and an unknown analyticsId, one kind of rejection.
InterleavedChatBodies ==
  {b \in ChatBodies :
     \/ ~Truthy(b.message)
     \/ Truthy(b.sessionId) /\ Truthy(b.conversationHistory)
          /\ IsArray(b.conversationHistory) /\ Len(b.conversationHistory.a) > 0}

InterleavedRecBodies == {b \in RecBodies : b.analyticsId \in {Str("a404"), Str("a1")}}

InterleavedOutcomes ==
  [modelName \in AllModelNames |-> UpstreamOutcomes[modelName] \ {Rejected("timeout")}]

\* Every request of Req is served; the requests interleave at their awaits.
Next ==
  \E r \in Req :
    \/ chat_Receive(r, InterleavedChatBodies)
    \/ rec_Receive(r, InterleavedRecBodies)
    \/ findByPk_Done(r)
    \/ getClient_Done(r)
    \/ getAccessToken_Done(r)
    \/ post_Done(r, InterleavedOutcomes)
    \/ findOne_Done(r)
    \/ update_Done(r)
    \/ create_Done(r)

Spec == Init /\ [][Next]_vars

\* One request, of either kind, with every input and every upstream outcome.
\* No row exists for its analyticsId, so findOne finds none.
NextSingle ==
  \/ chat_Receive(1, ChatBodies)
  \/ rec_Receive(1, RecBodies)
  \/ findByPk_Done(1)
  \/ getClient_Done(1)
  \/ getAccessToken_Done(1)
  \/ post_Done(1, UpstreamOutcomes)
  \/ findOne_Done(1)
  \/ create_Done(1)

SpecSingle == Init /\ [][NextSingle]_vars

(***************************************************************************)
(* Response envelopes: every layer of candidates[0].content.parts[0].text  *)
(* present, missing, null, empty or of another type.                       *)
(***************************************************************************)
GoodPart == Obj([text |-> Str("Drink water.")])

FirstParts ==
  {Obj([text |-> t]) : t \in {Null, Str(""), Str("Drink water.")}}
  \cup {Obj([inlineData |-> Str("image")]), Null, Str("raw")}

PartsValues ==
  {Arr(<<p>>) : p \in FirstParts}
  \cup {Arr(<<>>), Arr(<<GoodPart, Obj([text |-> Str("second part")])>>),
        Null, Str("parts"), Obj("0" :> GoodPart)}

ContentValues ==
  {Obj([parts |-> ps]) : ps \in PartsValues}
  \cup {Obj([role |-> Str("model")]), Null, Str("content")}

GoodCandidate == Obj([content |-> Obj([parts |-> Arr(<<GoodPart>>)])])

FirstCandidates ==
  {Obj([content |-> c]) : c \in ContentValues}
  \cup {Obj([finishReason |-> Str("SAFETY")]), Null}

CandidatesValues ==
  {Arr(<<c>>) : c \in FirstCandidates}
  \cup {Arr(<<>>),
        Arr(<<GoodCandidate,
              Obj([content |-> Obj([parts |-> Arr(<<Obj([text |-> Str("second")])>>)])])>>),
        Null, Str("candidates"), Obj("0" :> GoodCandidate)}

Envelopes ==
  {Obj([candidates |-> cs]) : cs \in CandidatesValues}
  \cup {Obj([promptFeedback |-> Str("blocked")]), Undef, Null, Str("<html>")}

EnvelopeOutcomes == [modelName \in AllModelNames |-> {Answered(b) : b \in Envelopes}]

EnvelopeChatBodies ==
  {b \in ChatBodies : Truthy(b.sessionId) /\ Truthy(b.message)
                        /\ b.conversationHistory = Undef}

EnvelopeRecBodies == {b \in RecBodies : b.analyticsId = Str("a1")}

\* One request whose outbound calls are all answered 2xx, with any envelope.
NextEnvelope ==
  \/ chat_Receive(1, EnvelopeChatBodies)
  \/ rec_Receive(1, EnvelopeRecBodies)
  \/ findByPk_Done(1)
  \/ getClient_Done(1)
  \/ getAccessToken_Done(1)
  \/ post_Done(1, EnvelopeOutcomes)
  \/ findOne_Done(1)
  \/ create_Done(1)

SpecEnvelope == Init /\ [][NextEnvelope]_vars

(***************************************************************************)
(* Properties                                                              *)
(***************************************************************************)
Names(r) == modelNames(kind[r])

Settled(c) == c.outcome # Pending

\* The upstream call failed: axios rejected.
CallFailed(c) == Settled(c) /\ ~c.outcome.ok

\* The text at candidates[0].content.parts[0].text of a response body when
\* every layer is there and well-formed, and Null otherwise.
TextAt(b) ==
  IF /\ b.t = "object"
     /\ "candidates" \in DOMAIN b.o
     /\ b.o.candidates.t = "array"
     /\ Len(b.o.candidates.a) > 0
     /\ LET c == b.o.candidates.a[1]
        IN /\ c.t = "object"
           /\ "content" \in DOMAIN c.o
           /\ c.o.content.t = "object"
           /\ "parts" \in DOMAIN c.o.content.o
           /\ c.o.content.o.parts.t = "array"
           /\ Len(c.o.content.o.parts.a) > 0
           /\ LET p == c.o.content.o.parts.a[1]
              IN /\ p.t = "object"
                 /\ "text" \in DOMAIN p.o
                 /\ p.o.text.t = "string"
                 /\ p.o.text.s # ""
    THEN b.o.candidates.a[1].o.content.o.parts.a[1].o.text
    ELSE Null

\* The upstream call succeeded: a 2xx whose body carries text.
CallSucceeded(c) == c.outcome.ok /\ TextAt(c.outcome.data) # Null

\* A 2xx whose body carries no extractable text.
CallAbsent(c) == c.outcome.ok /\ TextAt(c.outcome.data) = Null

IsAuthMessage(m) ==
  /\ Len(m) > 0
  /\ m[1] \in {"Authentication failed: ", "Failed to authenticate with Google Cloud: "}

\* C1: if the upstream calls for candidates 1..k-1 fail and the call for
\* candidate k succeeds, the invocation has issued exactly k calls, to the
\* first k candidates in list order, none after the k-th, and its result
\* is the text of candidate k's response.
C1_FirstSuccessWins ==
  \A r \in Req : \A k \in 1..Len(calls[r]) :
    ( /\ \A i \in 1..(k - 1) : CallFailed(calls[r][i])
      /\ CallSucceeded(calls[r][k]) )
    => /\ Len(calls[r]) = k
       /\ \A i \in 1..k : calls[r][i].model = Names(r)[i]
       /\ result[r].t = "return"
       /\ aiText[r] = TextAt(calls[r][k].outcome.data)
       /\ kind[r] = "chat" => result[r].value = aiText[r]
       /\ kind[r] = "rec" => result[r].value = calls[r][k].outcome.data

\* Two candidates failed and the third answered with text.
C1_Witness ==
  \E r \in Req :
    /\ Len(calls[r]) = 3
    /\ CallFailed(calls[r][1]) /\ CallFailed(calls[r][2])
    /\ CallSucceeded(calls[r][3])
    /\ result[r].t = "return"

\* The response either handler sends when the invocation throws after the
\* candidates are exhausted.
ExhaustedMessage(k) ==
  IF k = "chat" THEN "Failed to get AI response. Please try again."
  ELSE "Failed to generate recommendations with AI."

\* C2: if every candidate fails (rejection, or 2xx without extractable
\* text), the invocation throws, and the error it throws is the failure of
\* the last candidate of the list: no earlier candidate's, no placeholder.
C2_LastCandidateDetail ==
  \A r \in Req :
    ( /\ kind[r] # "none"
      /\ Len(calls[r]) = Len(Names(r))
      /\ \A i \in 1..Len(calls[r]) :
           CallFailed(calls[r][i]) \/ CallAbsent(calls[r][i]) )
    => /\ result[r].t = "throw"
       /\ result[r].error.model = Names(r)[Len(Names(r))]

\* C3: if token acquisition fails (auth unusable, getClient rejects,
\* getAccessToken rejects) the invocation fails with an authentication
\* error and has issued no outbound call; a recommendation request that
\* finds auth unusable is refused before the invocation starts.
C3_AuthFailureIssuesNoCall ==
  \A r \in Req :
    /\ tokenState[r] = "failed"
         => /\ calls[r] = <<>>
            /\ result[r].t = "throw"
            /\ IsAuthMessage(result[r].error.message)
            /\ res[r].status = "500"
            /\ res[r].error = result[r].error.message
    /\ (kind[r] = "rec" /\ recAuth = "undefined")
         => /\ calls[r] = <<>>
            /\ fetches[r] = 0
            /\ res[r].status = "500"
            /\ res[r].message =
                 "Server configuration error: Google Auth not initialized."

\* client.getAccessToken() rejected in a request that got a client.
C3_Witness ==
  \E r \in Req :
    /\ tokenState[r] = "failed"
    /\ pc[r] = "done"
    /\ result[r].error.message[Len(result[r].error.message)] = "invalid_grant"

\* C4: a candidate that is not the last of the list and answers 2xx
\* without extractable text is followed by an attempt of the next
\* candidate, and is the recorded last error while that attempt is in flight.
C4_AbsentContentFallsThrough ==
  \A r \in Req : \A i \in 1..Len(calls[r]) :
    (i < Len(Names(r)) /\ CallAbsent(calls[r][i]))
    => /\ Len(calls[r]) > i
       /\ calls[r][i + 1].model = Names(r)[i + 1]
       /\ ~Settled(calls[r][i + 1]) => lastError[r].model = Names(r)[i]

\* C5: when the final attempted candidate answers 2xx without extractable
\* text, the invocation ends in failure (it throws, it does not return),
\* every call issued is settled, and the handler answers as it does when
\* the candidates are exhausted.
C5_AbsentOnFinalCandidate ==
  \A r \in Req :
    (calls[r] # <<>> /\ CallAbsent(calls[r][Len(calls[r])]))
    => /\ result[r].t = "throw"
       /\ \A i \in 1..Len(calls[r]) : Settled(calls[r][i])
       /\ res[r].status = "500" /\ ~res[r].success
       /\ res[r].message = ExhaustedMessage(kind[r])
       /\ res[r].payload = Undef

\* How a finished request failed: the credential provider ("auth"), a 2xx
\* without extractable text on the final attempted candidate ("nocontent"),
\* every candidate tried and the last one rejected ("exhausted").
FailureClass(r) ==
  IF pc[r] # "done" \/ res[r].status # "500" THEN "none"
  ELSE IF tokenState[r] = "failed" \/ (kind[r] = "rec" /\ recAuth = "undefined")
    THEN "auth"
  ELSE IF calls[r] # <<>> /\ CallAbsent(calls[r][Len(calls[r])]) THEN "nocontent"
  ELSE IF calls[r] # <<>> /\ CallFailed(calls[r][Len(calls[r])]) THEN "exhausted"
  ELSE "none"

\* What the caller gets to tell the failure by.
FailureValue(r) == [message |-> res[r].message, error |-> res[r].error]

\* C6: two invocations that fail for different classes give the caller
\* different failure values, and an upstream failure is not reported as an
\* authentication failure, nor an authentication failure as anything else.
C6_FailureClassesDistinguishable ==
  /\ \A r1, r2 \in Req :
       ( /\ FailureClass(r1) # "none" /\ FailureClass(r2) # "none"
         /\ FailureClass(r1) # FailureClass(r2) )
       => FailureValue(r1) # FailureValue(r2)
  /\ \A r \in Req :
       /\ FailureClass(r) \in {"exhausted", "nocontent"}
            => ~IsAuthMessage(res[r].error)
       /\ FailureClass(r) = "auth"
            => \/ IsAuthMessage(res[r].error)
               \/ res[r].message =
                    "Server configuration error: Google Auth not initialized."

\* C7: whenever a call is answered 2xx, the extraction yields the text at
\* candidates[0].content.parts[0].text if every layer is well-formed (the
\* invocation ends there with that text) and the absent value otherwise
\* (the chat loop goes on or throws; the recommendation handler holds null).
C7_ExtractorContract ==
  \A r \in Req : \A i \in 1..Len(calls[r]) :
    calls[r][i].outcome.ok
    => LET text == TextAt(calls[r][i].outcome.data)
       IN IF text # Null
            THEN i = Len(calls[r]) /\ aiText[r] = text
            ELSE /\ kind[r] = "chat" => (Len(calls[r]) > i \/ result[r].t = "throw")
                 /\ kind[r] = "rec" => aiText[r] = Null

\* The contents the claim expects for a chat request body.
ExpectedContents(b) ==
  Arr((IF b.conversationHistory.t = "array" THEN b.conversationHistory.a ELSE <<>>)
      \o <<Obj([role |-> Str("user"), parts |-> Arr(<<Obj([text |-> b.message])>>)])>>)

\* C8: every outbound call of a chat request carries as contents the
\* supplied history, in its order, followed by one user turn with the new
\* message; with no history, one that is no array or an empty one, it is
\* that turn alone.
C8_ContentsIsHistoryThenMessage ==
  \A r \in Req :
    kind[r] = "chat"
    => \A i \in 1..Len(calls[r]) :
         /\ calls[r][i].contents = ExpectedContents(reqBody[r])
         /\ LET turns == calls[r][i].contents.a
            IN turns[Len(turns)] =
                 Obj([role |-> Str("user"),
                      parts |-> Arr(<<Obj([text |-> reqBody[r].message])>>)])

\* A chat request with two earlier turns reached its third candidate.
C8_Witness ==
  \E r \in Req :
    /\ kind[r] = "chat"
    /\ reqBody[r].conversationHistory.t = "array"
    /\ Len(reqBody[r].conversationHistory.a) = 2
    /\ Len(calls[r]) = 3
    /\ Len(calls[r][3].contents.a) = 3

\* C9: within one invocation the calls go to the candidates in list order,
\* each candidate at most once and none skipped, only the latest call can
\* be in flight, and with a token there are between 1 and N calls.
C9_OneAttemptPerCandidateInOrder ==
  \A r \in Req :
    /\ Len(calls[r]) <= Len(Names(r))
    /\ \A i \in 1..Len(calls[r]) : calls[r][i].model = Names(r)[i]
    /\ \A i, j \in 1..Len(calls[r]) : i # j => calls[r][i].model # calls[r][j].model
    /\ \A i \in 1..(Len(calls[r]) - 1) : Settled(calls[r][i])
    /\ tokenState[r] = "ok" => Len(calls[r]) >= 1

\* One request has tried every candidate of its list while another
\* request has a call in flight.
C9_Witness ==
  \E r1, r2 \in Req :
    /\ r1 # r2
    /\ kind[r1] # "none"
    /\ Len(calls[r1]) = Len(Names(r1))
    /\ Settled(calls[r1][Len(calls[r1])])
    /\ calls[r2] # <<>>
    /\ ~Settled(calls[r2][Len(calls[r2])])

\* C10: an invocation fetches a credential once, before its first call;
\* every call of the invocation bears the token of that fetch, also after
\* a candidate rejected; no other invocation's call bears it.
C10_OneTokenPerInvocation ==
  \A r \in Req :
    /\ fetches[r] <= 1
    /\ tokenState[r] # "none" => fetches[r] = 1
    /\ calls[r] # <<>> => fetches[r] = 1 /\ tokenState[r] = "ok"
    /\ \A i \in 1..Len(calls[r]) :
         /\ calls[r][i].bearer = accessToken[r]
         /\ calls[r][i].bearer.by = r
         /\ calls[r][i].bearer.n = fetches[r]
    /\ \A r2 \in Req \ {r} :
         \A i \in 1..Len(calls[r]) : \A j \in 1..Len(calls[r2]) :
           calls[r][i].bearer # calls[r2][j].bearer

\* Two invocations each went on to a second candidate after a rejection.
C10_Witness ==
  \E r1, r2 \in Req :
    /\ r1 # r2
    /\ Len(calls[r1]) >= 2 /\ CallFailed(calls[r1][1])
    /\ Len(calls[r2]) >= 2 /\ CallFailed(calls[r2][1])

\* The rows of the Recommendation table that belong to analyticsId a.
RowsFor(a) == {i \in 1..Len(store) : store[i].analyticsId = a}

\* The generation of request r failed or yielded no extractable text.
GenerationFailed(r) ==
  /\ kind[r] = "rec"
  /\ \/ result[r].t = "throw"
     \/ result[r].t = "return" /\ TextAt(result[r].value) = Null

\* The store holds at most one Recommendation row for every analyticsId.
OneRowPerAnalyticsId ==
  \A a \in {store[i].analyticsId : i \in 1..Len(store)} :
    Cardinality(RowsFor(a)) <= 1

\* A request whose generation failed has answered without reading or writing
\* the table, and every row holds the extracted text of a request.
FailedRequestWritesNoRow ==
  /\ \A r \in Req :
       GenerationFailed(r) =>
         /\ pc[r] = "done"
         /\ rowRef[r] = 0
         /\ ~res[r].success
  /\ \A i \in 1..Len(store) :
       /\ Truthy(store[i].recommendations)
       /\ \E r \in Req :
            /\ kind[r] = "rec" /\ ~GenerationFailed(r)
            /\ rowRef[r] = i
            /\ findByPk(reqBody[r].analyticsId).id = store[i].analyticsId

\* C11: after any number of generateHealthRecommendations requests for the
\* same analyticsId, interleaved ones included, the store holds at most one
\* Recommendation row for that analyticsId (a later successful request
\* updates the row instead of creating a second one), and a request whose
\* generation fails or yields no extractable text writes no row.
C11_AtMostOneRowPerAnalyticsId ==
  /\ OneRowPerAnalyticsId
  /\ FailedRequestWritesNoRow

====
